---- MODULE Spec2Model ----
(***************************************************************************)
(* EqualityConstrainedQPSolver::Solve of drake/solvers: assembly of the    *)
(* dense problem (G, c, A, b) from the program's quadratic costs and       *)
(* linear equality constraints, the choice between the range-space         *)
(* strategy and the full KKT fallback, and the write-back of the result.   *)
(*                                                                         *)
(* Eigen's double arithmetic is modelled by exact rational arithmetic: a   *)
(* scalar is a pair <<numerator, denominator>> in lowest terms.  The       *)
(* decompositions are modelled by the exact results they compute:          *)
(*   LLT        the pivots of the Cholesky recurrence (square-root free),  *)
(*   FullPivHouseholderQR::solve   a basic least-squares solution,         *)
(*   JacobiSVD::solve              the minimum-norm least-squares solution.*)
(***************************************************************************)
EXTENDS Integers, Sequences, FiniteSets, TLC

-----------------------------------------------------------------------------
(* Scalars (double, modelled exactly). *)

Abs(a) == IF a < 0 THEN -a ELSE a

RECURSIVE Gcd(_, _)
Gcd(a, b) == IF b = 0 THEN a ELSE Gcd(b, a % b)

Rat(n, d) ==
  LET g == Gcd(Abs(n), Abs(d))
      s == IF d < 0 THEN -1 ELSE 1
  IN  <<(s * n) \div g, (s * d) \div g>>

R(i) == <<i, 1>>
R0 == <<0, 1>>
RAdd(a, b) == Rat(a[1] * b[2] + b[1] * a[2], a[2] * b[2])
RSub(a, b) == Rat(a[1] * b[2] - b[1] * a[2], a[2] * b[2])
RMul(a, b) == Rat(a[1] * b[1], a[2] * b[2])
RDiv(a, b) == Rat(a[1] * b[2], a[2] * b[1])
RNeg(a) == <<-a[1], a[2]>>
RPos(a) == a[1] > 0
RHalf == <<1, 2>>

RECURSIVE RSumTo(_, _)
RSumTo(s, k) == IF k = 0 THEN R0 ELSE RAdd(RSumTo(s, k - 1), s[k])
RSum(s) == RSumTo(s, Len(s))

-----------------------------------------------------------------------------
(* Eigen::VectorXd is a sequence of scalars; Eigen::MatrixXd is a record   *)
(* [rows, cols, e] with e[i][j] the coefficient at row i, column j         *)
(* (1-based here, 0-based in Eigen).                                       *)

(* A vector or a row built by a function constructor is stored as a tuple of  *)
(* evaluated coefficients (Eigen evaluates a vector expression once, on      *)
(* assignment).                                                              *)
Eval(v) == v \o <<>>

VZero(n) == Eval([i \in 1..n |-> R0])
VAdd(u, v) == Eval([i \in 1..Len(u) |-> RAdd(u[i], v[i])])
VSub(u, v) == Eval([i \in 1..Len(u) |-> RSub(u[i], v[i])])
VNeg(u) == Eval([i \in 1..Len(u) |-> RNeg(u[i])])
Dot(u, v) == RSum(Eval([i \in 1..Len(u) |-> RMul(u[i], v[i])]))
Segment(v, start, n) == Eval([i \in 1..n |-> v[start + i - 1]])

Mat(r, c, f) == [rows |-> r, cols |-> c, e |-> Eval([i \in 1..r |-> Eval(f[i])])]
MIdentity(n) == Mat(n, n, [i \in 1..n |-> [j \in 1..n |-> IF i = j THEN R(1) ELSE R0]])
MZero(r, c) == Mat(r, c, [i \in 1..r |-> [j \in 1..c |-> R0]])
Transpose(X) == Mat(X.cols, X.rows, [i \in 1..X.cols |-> [j \in 1..X.rows |-> X.e[j][i]]])
MNeg(X) == Mat(X.rows, X.cols, [i \in 1..X.rows |-> [j \in 1..X.cols |-> RNeg(X.e[i][j])]])
Col(X, j) == Eval([i \in 1..X.rows |-> X.e[i][j]])
MatVec(X, v) == Eval([i \in 1..X.rows |-> Dot(X.e[i], v)])
MatMul(X, Y) ==
  Mat(X.rows, Y.cols,
      [i \in 1..X.rows |-> [j \in 1..Y.cols |-> Dot(X.e[i], Col(Y, j))]])
Cols(X, P) == Mat(X.rows, Len(P), [i \in 1..X.rows |-> [j \in 1..Len(P) |-> X.e[i][P[j]]]])
TopRows(X, r) == Mat(r, X.cols, [i \in 1..r |-> X.e[i]])

-----------------------------------------------------------------------------
(* Eigen::LLT<MatrixXd>.  The factorization reads the lower triangle of    *)
(* its argument only.  With L = Lu * sqrt(D) the recurrence of the         *)
(* unblocked Cholesky is, column by column,                                *)
(*   x_k = G(k,k) - sum_{j<k} L(k,j)^2 ; fail if x_k <= 0 ;                *)
(*   L(i,k) = (G(i,k) - sum_{j<k} L(i,j) L(k,j)) / L(k,k)                  *)
(* which is kept here as the pivots d[k] = x_k and the unit lower factor.  *)

LltPartial(L, d, i, k) ==
  RSum(Eval([j \in 1..(k - 1) |-> RMul(RMul(L[i][j], L[k][j]), d[j])]))

RECURSIVE LltColumns(_, _, _, _)
LltColumns(G, k, L, d) ==
  IF k > G.rows
  THEN [info |-> "Success", n |-> G.rows, L |-> L, d |-> d]
  ELSE LET x == RSub(G.e[k][k], LltPartial(L, d, k, k)) IN
       IF ~RPos(x)
       THEN [info |-> "NumericalIssue", n |-> G.rows, L |-> L, d |-> d]
       ELSE LltColumns(G, k + 1,
              Eval([i \in 1..G.rows |-> Eval([j \in 1..G.rows |->
                 IF j = k /\ i > k
                 THEN RDiv(RSub(G.e[i][k], LltPartial(L, d, i, k)), x)
                 ELSE L[i][j]])]),
              [d EXCEPT ![k] = x])

LLT(G) ==
  LltColumns(G, 1,
             MIdentity(G.rows).e,
             VZero(G.rows))

RECURSIVE LltForward(_, _, _)
LltForward(llt, rhs, z) ==
  IF Len(z) = llt.n THEN z
  ELSE LET i == Len(z) + 1 IN
       LltForward(llt, rhs,
         Append(z, RSub(rhs[i], RSum(Eval([j \in 1..(i - 1) |-> RMul(llt.L[i][j], z[j])])))))

RECURSIVE LltBackward(_, _, _)
LltBackward(llt, w, x) ==
  \* x holds the entries i+1..n already solved, in order
  IF Len(x) = llt.n THEN x
  ELSE LET i == llt.n - Len(x) IN
       LltBackward(llt, w,
         <<RSub(w[i], RSum(Eval([j \in 1..Len(x) |-> RMul(llt.L[i + j][i], x[j])])))>> \o x)

LltSolveVec(llt, rhs) ==
  LET z == LltForward(llt, rhs, <<>>)
      w == Eval([i \in 1..llt.n |-> RDiv(z[i], llt.d[i])])
  IN  LltBackward(llt, w, <<>>)

LltSolve(llt, B) ==
  LET X == Eval([j \in 1..B.cols |-> LltSolveVec(llt, Col(B, j))])
  IN  Mat(llt.n, B.cols, [i \in 1..llt.n |-> [j \in 1..B.cols |-> X[j][i]]])

-----------------------------------------------------------------------------
(* Row reduction, used for the rank and for a full-rank factorization.     *)

RECURSIVE Rref(_, _, _, _)
Rref(X, r, c, piv) ==
  IF r > X.rows \/ c > X.cols
  THEN [m |-> X, piv |-> piv]
  ELSE LET cand == {i \in r..X.rows : X.e[i][c] # R0} IN
       IF cand = {}
       THEN Rref(X, r, c + 1, piv)
       ELSE LET p == CHOOSE i \in cand : \A k \in cand : i <= k
                prow == Eval([j \in 1..X.cols |-> RDiv(X.e[p][j], X.e[p][c])])
                other(i) == IF i = r THEN X.e[p] ELSE IF i = p THEN X.e[r] ELSE X.e[i]
                e2 == [i \in 1..X.rows |->
                         IF i = r THEN prow
                         ELSE LET row == other(i) IN
                              IF row[c] = R0 THEN row
                              ELSE [j \in 1..X.cols |-> RSub(row[j], RMul(row[c], prow[j]))]]
            IN Rref(Mat(X.rows, X.cols, e2), r + 1, c + 1, Append(piv, c))

Rank(X) == Len(Rref(X, 1, 1, <<>>).piv)

(* Least-squares solution of F z = rhs for F of full column rank. *)
LeastSquaresFullRank(F, rhs) ==
  IF F.cols = 0 THEN <<>>
  ELSE LET Ft == Transpose(F) IN
       LltSolveVec(LLT(MatMul(Ft, F)), MatVec(Ft, rhs))

(* Eigen::JacobiSVD::solve: the minimum-norm least-squares solution        *)
(* pinv(K) * rhs, computed from the full-rank factorization K = F * H      *)
(* (F the pivot columns of K, H the nonzero rows of its reduced form):     *)
(* pinv(K) = H' (H H')^-1 (F' F)^-1 F'.                                    *)
JacobiSvdSolve(K, rhs) ==
  LET red == Rref(K, 1, 1, <<>>)
      r == Len(red.piv)
  IN  IF r = 0 THEN VZero(K.cols)
      ELSE LET F == Cols(K, red.piv)
               H == TopRows(red.m, r)
               Ht == Transpose(H)
               u == LeastSquaresFullRank(F, rhs)
               v == LltSolveVec(LLT(MatMul(H, Ht)), u)
           IN  MatVec(Ht, v)

-----------------------------------------------------------------------------
(* Eigen::FullPivHouseholderQR::solve.  With rank r and pivot columns P    *)
(* the solve returns the least-squares solution supported on P and zero    *)
(* on the other columns.  Which r independent columns the pivoting picks   *)
(* depends on rounded magnitudes, so every choice of r independent columns *)
(* is admitted.                                                            *)

RECURSIVE SortedSeq(_)
SortedSeq(P) ==
  IF P = {} THEN <<>>
  ELSE LET hi == CHOOSE i \in P : \A k \in P : k <= i
       IN  Append(SortedSeq(P \ {hi}), hi)

Position(P, j) == CHOOSE k \in 1..Len(P) : P[k] = j

BasicColumnSets(S) ==
  LET r == Rank(S) IN
  {P \in SUBSET (1..S.cols) :
     Cardinality(P) = r /\ Rank(Cols(S, SortedSeq(P))) = r}

(* A variant that leaves the entries off the pivot columns unset (here 1)  *)
(* instead of zero.                                                        *)
QrSolveOnUnsetRest(S, rhs, P) ==
  LET z == LeastSquaresFullRank(Cols(S, P), rhs)
  IN  Eval([j \in 1..S.cols |->
              IF \E k \in 1..Len(P) : P[k] = j THEN z[Position(P, j)] ELSE R(1)])

QrSolveOn(S, rhs, P) ==
  LET z == LeastSquaresFullRank(Cols(S, P), rhs)
  IN  Eval([j \in 1..S.cols |->
              IF \E k \in 1..Len(P) : P[k] = j THEN z[Position(P, j)] ELSE R0])

QrSolve(S, rhs) == {QrSolveOn(S, rhs, SortedSeq(P)) : P \in BasicColumnSets(S)}

-----------------------------------------------------------------------------
(* Bounds of the model. *)

NumVars == 2        \* prog.num_vars()
MaxTerms == 3       \* quadratic costs plus linear equality constraints
MaxCalls == 2       \* Solve calls on one program
MaxUnsupported == 1 \* unsupported kinds present at once

(* The program's decision variables; a binding names variables, and        *)
(* FindDecisionVariableIndex gives the position in the program.            *)
DecisionVariable(i) == 100 + i
DecisionVariables == Eval([i \in 1..NumVars |-> DecisionVariable(i)])
FindDecisionVariableIndex(v) ==
  CHOOSE i \in 1..NumVars : DecisionVariables[i] = v

IntVec(s) == Eval([i \in 1..Len(s) |-> R(s[i])])
IntMat(r, c, rows) == Mat(r, c, [i \in 1..r |-> [j \in 1..c |-> R(rows[i][j])]])
Binding(Q, b, vs) ==
  [Q |-> Q, b |-> b, variables |-> Eval([i \in 1..Len(vs) |-> DecisionVariable(vs[i])])]

AllVariables == Eval([i \in 1..NumVars |-> i])
Scaled(k, X) ==
  Mat(X.rows, X.cols, [i \in 1..X.rows |-> [j \in 1..X.cols |-> RMul(R(k), X.e[i][j])]])

(* Quadratic cost bindings offered to AddQuadraticCost: 1/2 z'Qz + b'z.    *)
(* The first is the sum of the squares of all the variables.               *)
QuadraticCostChoices ==
  { Binding(Scaled(2, MIdentity(NumVars)), VZero(NumVars), AllVariables),
    Binding(IntMat(1, 1, <<<<3>>>>), IntVec(<<1>>), <<2>>),
    Binding(IntMat(2, 2, <<<<0, 1>>, <<1, 0>>>>), IntVec(<<1, 0>>), <<2, 1>>),
    Binding(IntMat(1, 1, <<<<-1>>>>), IntVec(<<3>>), <<1>>) }

EqBinding(A, lb, vs) ==
  [A |-> A, lower_bound |-> lb,
   variables |-> Eval([i \in 1..Len(vs) |-> DecisionVariable(vs[i])])]

(* Linear equality bindings offered to AddLinearEqualityConstraint:        *)
(* A z = lower_bound (= upper_bound).  The first says that the variables   *)
(* sum to 1, the second fixes every variable: x1 = 3, x2 = 4, ...          *)
LinearEqualityChoices ==
  { EqBinding(Mat(1, NumVars, [i \in 1..1 |-> [j \in 1..NumVars |-> R(1)]]),
              IntVec(<<1>>), AllVariables),
    EqBinding(MIdentity(NumVars), Eval([i \in 1..NumVars |-> R(2 + i)]),
              AllVariables),
    EqBinding(IntMat(3, 1, <<<<1>>, <<1>>, <<0>>>>), IntVec(<<4, 2, 0>>), <<2>>),
    EqBinding(IntMat(1, 2, <<<<2, 1>>>>), IntVec(<<2>>), <<2, 1>>) }

UnsupportedKinds ==
  {"generic_constraints", "generic_costs", "linear_constraints",
   "bounding_box_constraints", "linear_complementarity_constraints"}

NaN == <<0, 0>>

-----------------------------------------------------------------------------
VARIABLES
  quadratic_costs,              \* prog.quadratic_costs(), in order
  linear_equality_constraints,  \* prog.linear_equality_constraints(), in order
  unsupported,                  \* the kinds of other costs/constraints present
  x_val,                        \* the program's decision variable values
  optimal_cost,                 \* the program's optimal cost
  solver_result,                \* the program's solver result
  pc,                           \* position of the Solve call
  it,                           \* position of the running range-for loop
  num_constraints, G, c, A, b, constraint_index,   \* locals of Solve
  llt, lambda, sol, x, ret,                        \* locals and return value
  calls,                        \* Solve calls started on this program
  trace,                        \* what the running call has done so far
  prev                          \* what the previous call left behind

prog == <<quadratic_costs, linear_equality_constraints, unsupported>>
solution == <<x_val, optimal_cost, solver_result>>
frame == <<num_constraints, G, c, A, b, constraint_index, llt, lambda, sol, x>>
assembled == <<num_constraints, G, c, A, b, constraint_index>>
vars == <<quadratic_costs, linear_equality_constraints, unsupported,
          x_val, optimal_cost, solver_result, pc, it,
          num_constraints, G, c, A, b, constraint_index, llt, lambda, sol, x,
          ret, calls, trace, prev>>

NoLlt == [info |-> "none", n |-> 0, L |-> <<>>, d |-> <<>>]

(* A frame of Solve before any of its locals is declared. *)
FreshFrame ==
  /\ num_constraints = 0
  /\ G = MZero(0, 0)
  /\ c = <<>>
  /\ A = MZero(0, 0)
  /\ b = <<>>
  /\ constraint_index = 0
  /\ llt = NoLlt
  /\ lambda = <<>>
  /\ sol = <<>>
  /\ x = <<>>

Init ==
  /\ quadratic_costs = <<>>
  /\ linear_equality_constraints = <<>>
  /\ unsupported = {}
  /\ x_val = Eval([i \in 1..NumVars |-> NaN])
  /\ optimal_cost = NaN
  /\ solver_result = "none"
  /\ pc = "idle"
  /\ it = 0
  /\ FreshFrame
  /\ ret = "none"
  /\ calls = 0
  /\ trace = <<>>
  /\ prev = [x_val |-> Eval([i \in 1..NumVars |-> NaN]), optimal_cost |-> NaN,
             solver_result |-> "none", ret |-> "none", trace |-> <<>>]

-----------------------------------------------------------------------------
(* The collaborating MathematicalProgram: building the program. *)

NumTerms == Len(quadratic_costs) + Len(linear_equality_constraints)

AddQuadraticCost(binding) ==
  /\ pc = "idle"
  /\ NumTerms < MaxTerms
  /\ quadratic_costs' = Append(quadratic_costs, binding)
  /\ UNCHANGED <<linear_equality_constraints, unsupported, solution, pc, it,
                 frame, ret, calls, trace, prev>>

AddLinearEqualityConstraint(binding) ==
  /\ pc = "idle"
  /\ NumTerms < MaxTerms
  /\ linear_equality_constraints' = Append(linear_equality_constraints, binding)
  /\ UNCHANGED <<quadratic_costs, unsupported, solution, pc, it,
                 frame, ret, calls, trace, prev>>

(* A cost or constraint of a kind this solver does not handle is added.    *)
AddUnsupported(kind) ==
  /\ pc = "idle"
  /\ kind \notin unsupported
  /\ Cardinality(unsupported) < MaxUnsupported
  /\ unsupported' = unsupported \cup {kind}
  /\ UNCHANGED <<quadratic_costs, linear_equality_constraints, solution, pc, it,
                 frame, ret, calls, trace, prev>>

-----------------------------------------------------------------------------
(* EqualityConstrainedQPSolver::Solve. *)

(* DRAKE_ASSERT(condition): the call does not continue when it fails. *)
DrakeAssert(condition) == condition

(* A variant that does not assert on bounding box constraints. *)
SolvePreconditionsWithoutBoundingBox ==
  /\ DrakeAssert("generic_constraints" \notin unsupported)
  /\ DrakeAssert("generic_costs" \notin unsupported)
  /\ DrakeAssert("linear_constraints" \notin unsupported)
  /\ DrakeAssert("linear_complementarity_constraints" \notin unsupported)

SolvePreconditions ==
  /\ DrakeAssert("generic_constraints" \notin unsupported)
  /\ DrakeAssert("generic_costs" \notin unsupported)
  /\ DrakeAssert("linear_constraints" \notin unsupported)
  /\ DrakeAssert("bounding_box_constraints" \notin unsupported)
  /\ DrakeAssert("linear_complementarity_constraints" \notin unsupported)

(* Entry: the assertions, then `size_t num_constraints = 0`. *)
SolveBegin ==
  /\ pc \in {"idle", "done"}
  /\ calls < MaxCalls
  /\ calls' = calls + 1
  /\ trace' = <<>>
  /\ ret' = "none"
  /\ num_constraints' = 0
  /\ G' = MZero(0, 0)
  /\ c' = <<>>
  /\ A' = MZero(0, 0)
  /\ b' = <<>>
  /\ constraint_index' = 0
  /\ llt' = NoLlt
  /\ lambda' = <<>>
  /\ sol' = <<>>
  /\ x' = <<>>
  /\ IF SolvePreconditions
     THEN pc' = "count" /\ it' = 1
     ELSE pc' = "aborted" /\ it' = 0
  /\ prev' = IF pc = "done"
             THEN [x_val |-> x_val, optimal_cost |-> optimal_cost,
                   solver_result |-> solver_result, ret |-> ret, trace |-> trace]
             ELSE prev
  /\ UNCHANGED <<prog, solution>>

ZeroCostMatrix == MZero(NumVars, NumVars)
ZeroCostVector == VZero(NumVars)

(* for (binding : linear_equality_constraints) num_constraints += rows;    *)
(* after the loop G and c are declared, all zero.                          *)
CountRows ==
  /\ pc = "count"
  /\ IF it <= Len(linear_equality_constraints)
     THEN /\ num_constraints' =
               num_constraints + linear_equality_constraints[it].A.rows
          /\ it' = it + 1
          /\ UNCHANGED <<pc, G, c>>
     ELSE /\ G' = ZeroCostMatrix
          /\ c' = ZeroCostVector
          /\ pc' = "cost"
          /\ it' = 1
          /\ UNCHANGED num_constraints
  /\ UNCHANGED <<prog, solution, A, b, constraint_index, llt, lambda, sol, x, ret,
                 calls, trace, prev>>

(* G(p, q) = value: a variant that overwrites instead of accumulating. *)
CoeffAssign(M, p, q, value) ==
  [M EXCEPT !.e[p][q] = value]

(* G(p, q) += value *)
CoeffAdd(M, p, q, value) ==
  [M EXCEPT !.e[p][q] = RAdd(M.e[p][q], value)]

(* c(p) += value *)
VecAdd(v, p, value) == [v EXCEPT ![p] = RAdd(v[p], value)]

(* The inner loop over j of one row i of a quadratic cost. *)
RECURSIVE ScatterRow(_, _, _, _, _)
ScatterRow(M, Q, v_index, i, j) ==
  IF j > Len(v_index) THEN M
  ELSE ScatterRow(CoeffAdd(M, v_index[i], v_index[j], Q.e[i][j]), Q, v_index, i, j + 1)

(* The loop over i: row i of Q into G, then b(i) into c. *)
RECURSIVE ScatterCost(_, _, _, _)
ScatterCost(Gc, binding, v_index, i) ==
  IF i > Len(v_index) THEN Gc
  ELSE ScatterCost([G |-> ScatterRow(Gc.G, binding.Q, v_index, i, 1),
                    c |-> VecAdd(Gc.c, v_index[i], binding.b[i])],
                   binding, v_index, i + 1)

VIndex(binding) ==
  Eval([i \in 1..Len(binding.variables) |->
          FindDecisionVariableIndex(binding.variables[i])])

(* One quadratic cost binding; after the loop A and b are declared, zero.  *)
CostTerm ==
  /\ pc = "cost"
  /\ IF it <= Len(quadratic_costs)
     THEN LET binding == quadratic_costs[it]
              Gc == ScatterCost([G |-> G, c |-> c], binding, VIndex(binding), 1)
          IN  /\ G' = Gc.G
              /\ c' = Gc.c
              /\ it' = it + 1
              /\ UNCHANGED <<pc, A, b, constraint_index>>
     ELSE /\ A' = MZero(num_constraints, NumVars)
          /\ b' = VZero(num_constraints)
          /\ constraint_index' = 0
          /\ pc' = "constraints"
          /\ it' = 1
          /\ UNCHANGED <<G, c>>
  /\ UNCHANGED <<prog, solution, num_constraints, llt, lambda, sol, x, ret,
                 calls, trace, prev>>

(* A variant that places every block at the top row. *)
SetColumnBlockAtTop(M, startRow, col, n, column) ==
  Mat(M.rows, M.cols,
      [i \in 1..M.rows |-> [j \in 1..M.cols |->
         IF j = col /\ i <= n THEN column[i] ELSE M.e[i][j]]])

(* M.block(startRow, col, n, 1) = column   (startRow 0-based as in Eigen)  *)
SetColumnBlock(M, startRow, col, n, column) ==
  Mat(M.rows, M.cols,
      [i \in 1..M.rows |-> [j \in 1..M.cols |->
         IF j = col /\ i > startRow /\ i <= startRow + n
         THEN column[i - startRow] ELSE M.e[i][j]]])

(* v.segment(start, n) = values *)
SetSegment(v, start, n, values) ==
  Eval([i \in 1..Len(v) |->
          IF i > start /\ i <= start + n THEN values[i - start] ELSE v[i]])

RECURSIVE PlaceColumns(_, _, _, _, _)
PlaceColumns(M, binding, start, n, i) ==
  IF i > Len(binding.variables) THEN M
  ELSE PlaceColumns(
         SetColumnBlock(M, start, FindDecisionVariableIndex(binding.variables[i]),
                        n, Col(binding.A, i)),
         binding, start, n, i + 1)

(* One linear equality binding. *)
ConstraintTerm ==
  /\ pc = "constraints"
  /\ IF it <= Len(linear_equality_constraints)
     THEN LET binding == linear_equality_constraints[it]
              n == binding.A.rows
          IN  /\ A' = PlaceColumns(A, binding, constraint_index, n, 1)
              /\ b' = SetSegment(b, constraint_index, n,
                                 Segment(binding.lower_bound, 1, n))
              /\ constraint_index' = constraint_index + n
              /\ it' = it + 1
              /\ UNCHANGED pc
     ELSE /\ pc' = "factor"
          /\ it' = 0
          /\ UNCHANGED <<A, b, constraint_index>>
  /\ UNCHANGED <<prog, solution, num_constraints, G, c, llt, lambda, sol, x, ret,
                 calls, trace, prev>>

(* Eigen::LLT llt(G); if (llt.info() == Eigen::Success) ... *)
Factor ==
  /\ pc = "factor"
  /\ llt' = LLT(G)
  /\ trace' = Append(trace, "llt")
  /\ pc' = IF llt'.info = "Success" THEN "range_space" ELSE "full_kkt"
  /\ UNCHANGED <<prog, solution, it, assembled, lambda, sol, x, ret, calls, prev>>

(* Variants with a sign error, used to test the properties below. *)
RangeRhsSignError(AiG_T) == VSub(MatVec(Transpose(AiG_T), c), b)
RangeXSignError(y) == LltSolveVec(llt, VAdd(MatVec(Transpose(A), y), c))

(* Range-space approach, up to `const Eigen::VectorXd x = ...`.            *)
RangeRhs(AiG_T) == VAdd(MatVec(Transpose(AiG_T), c), b)
RangeX(y) == LltSolveVec(llt, VSub(MatVec(Transpose(A), y), c))

RangeSpaceSolve ==
  /\ pc = "range_space"
  /\ LET AiG_T == LltSolve(llt, Transpose(A))
     IN  \E y \in QrSolve(MatMul(A, AiG_T), RangeRhs(AiG_T)) :
           /\ lambda' = y
           /\ x' = RangeX(y)
  /\ trace' = Append(trace, "range_space")
  /\ pc' = "range_space_write"
  /\ UNCHANGED <<prog, solution, it, assembled, llt, sol, ret, calls, prev>>

(* 0.5 * x.dot(G * x + c) *)
OptimalCost(xs) == RMul(RHalf, Dot(xs, VAdd(MatVec(G, xs), c)))

(* A variant that reports infeasible constraints when A x = b fails. *)
WriteBackCheckingFeasibility ==
  /\ x_val' = x
  /\ optimal_cost' = OptimalCost(x)
  /\ solver_result' = "kEqualityConstrainedQP"
  /\ ret' = IF MatVec(A, x) = b THEN "kSolutionFound" ELSE "kInfeasibleConstraints"
  /\ trace' = trace \o <<"SetDecisionVariableValues", "SetOptimalCost",
                         "SetSolverResult", "return">>

(* SetDecisionVariableValues, SetOptimalCost, SetSolverResult, return.     *)
WriteBack ==
  /\ x_val' = x
  /\ optimal_cost' = OptimalCost(x)
  /\ solver_result' = "kEqualityConstrainedQP"
  /\ ret' = "kSolutionFound"
  /\ trace' = trace \o <<"SetDecisionVariableValues", "SetOptimalCost",
                         "SetSolverResult", "return">>

(* A variant without the return: the call falls through to the fallback. *)
RangeSpaceWriteBackFallingThrough ==
  /\ pc = "range_space_write"
  /\ x_val' = x
  /\ optimal_cost' = OptimalCost(x)
  /\ solver_result' = "kEqualityConstrainedQP"
  /\ trace' = trace \o <<"SetDecisionVariableValues", "SetOptimalCost",
                         "SetSolverResult">>
  /\ pc' = "full_kkt"
  /\ UNCHANGED <<prog, it, frame, ret, calls, prev>>

RangeSpaceWriteBack ==
  /\ pc = "range_space_write"
  /\ WriteBack
  /\ pc' = "done"
  /\ UNCHANGED <<prog, it, frame, calls, prev>>

(* The (n+m) x (n+m) matrix [G -A'; A 0], block by block. *)
SetBlock(M, startRow, startCol, B) ==
  Mat(M.rows, M.cols,
      [i \in 1..M.rows |-> [j \in 1..M.cols |->
         IF /\ i > startRow /\ i <= startRow + B.rows
            /\ j > startCol /\ j <= startCol + B.cols
         THEN B.e[i - startRow][j - startCol] ELSE M.e[i][j]]])

Uninitialized(r, cs) == Mat(r, cs, [i \in 1..r |-> [j \in 1..cs |-> NaN]])

AFull ==
  LET num_full_vars == NumVars + num_constraints
      M0 == Uninitialized(num_full_vars, num_full_vars)
      M1 == SetBlock(M0, 0, 0, G)
      M2 == SetBlock(M1, 0, G.cols, MNeg(Transpose(A)))
      M3 == SetBlock(M2, G.rows, 0, A)
  IN  SetBlock(M3, G.rows, G.cols, MZero(A.rows, A.rows))

(* A variant with c in place of -c. *)
BFullSignError ==
  LET num_full_vars == NumVars + num_constraints
      v0 == Eval([i \in 1..num_full_vars |-> NaN])
      v1 == SetSegment(v0, 0, G.rows, c)
  IN  SetSegment(v1, G.rows, A.rows, b)

BFull ==
  LET num_full_vars == NumVars + num_constraints
      v0 == Eval([i \in 1..num_full_vars |-> NaN])
      v1 == SetSegment(v0, 0, G.rows, VNeg(c))
  IN  SetSegment(v1, G.rows, A.rows, b)

(* Full KKT system, up to `const Eigen::VectorXd x = sol.segment(...)`.    *)
FullKktSolve ==
  /\ pc = "full_kkt"
  /\ sol' = JacobiSvdSolve(AFull, BFull)
  /\ x' = Segment(sol', 1, NumVars)
  /\ trace' = Append(trace, "full_kkt")
  /\ pc' = "full_kkt_write"
  /\ UNCHANGED <<prog, solution, it, assembled, llt, lambda, ret, calls, prev>>

FullKktWriteBack ==
  /\ pc = "full_kkt_write"
  /\ WriteBack
  /\ pc' = "done"
  /\ UNCHANGED <<prog, it, frame, calls, prev>>

Next ==
  \/ \E binding \in QuadraticCostChoices : AddQuadraticCost(binding)
  \/ \E binding \in LinearEqualityChoices : AddLinearEqualityConstraint(binding)
  \/ \E kind \in UnsupportedKinds : AddUnsupported(kind)
  \/ SolveBegin
  \/ CountRows
  \/ CostTerm
  \/ ConstraintTerm
  \/ Factor
  \/ RangeSpaceSolve
  \/ RangeSpaceWriteBack
  \/ FullKktSolve
  \/ FullKktWriteBack

Spec == Init /\ [][Next]_vars

-----------------------------------------------------------------------------
(* Vocabulary of the properties, stated without the solver's operators.    *)

Done == pc = "done"
Ran(step) == \E k \in 1..Len(trace) : trace[k] = step
Times(step) == Cardinality({k \in 1..Len(trace) : trace[k] = step})
IsZeroVec(v) == \A i \in 1..Len(v) : v[i] = R0

(* Determinant by expansion along the first row. *)
Minor(X, col) ==
  Mat(X.rows - 1, X.cols - 1,
      [i \in 1..(X.rows - 1) |-> [j \in 1..(X.cols - 1) |->
         X.e[i + 1][IF j < col THEN j ELSE j + 1]]])

RECURSIVE Det(_)
Det(X) ==
  IF X.rows = 0 THEN R(1)
  ELSE RSum(Eval([j \in 1..X.cols |->
              RMul(IF j % 2 = 1 THEN X.e[1][j] ELSE RNeg(X.e[1][j]),
                   Det(Minor(X, j)))]))

Leading(X, k) == Mat(k, k, [i \in 1..k |-> [j \in 1..k |-> X.e[i][j]]])
IsSymmetric(X) == \A i, j \in 1..X.rows : X.e[i][j] = X.e[j][i]
(* Sylvester's criterion. *)
IsPositiveDefinite(X) ==
  IsSymmetric(X) /\ \A k \in 1..X.rows : RPos(Det(Leading(X, k)))

(* The objective of the program at a point: the sum over the quadratic     *)
(* costs of 1/2 z'Qz + b'z, z the point restricted to the cost's variables.*)
Restrict(xs, binding) ==
  Eval([i \in 1..Len(binding.variables) |->
          xs[FindDecisionVariableIndex(binding.variables[i])]])
CostAt(binding, z) ==
  RAdd(RMul(RHalf, Dot(z, MatVec(binding.Q, z))), Dot(binding.b, z))
ObjectiveAt(xs) ==
  RSum(Eval([t \in 1..Len(quadratic_costs) |->
          CostAt(quadratic_costs[t], Restrict(xs, quadratic_costs[t]))]))

(* How many bindings of each loop have been processed. *)
CostsProcessed ==
  IF pc = "cost" THEN it - 1 ELSE Len(quadratic_costs)
CostsAssembling ==
  pc \in {"cost", "constraints", "factor", "range_space", "range_space_write",
          "full_kkt", "full_kkt_write", "done"}
ConstraintsProcessed ==
  IF pc = "constraints" THEN it - 1 ELSE Len(linear_equality_constraints)
ConstraintsAssembling ==
  pc \in {"constraints", "factor", "range_space", "range_space_write",
          "full_kkt", "full_kkt_write", "done"}

Maps(binding, i, p) == FindDecisionVariableIndex(binding.variables[i]) = p

-----------------------------------------------------------------------------
(* C1: the optimal cost Solve reports equals 1/2 x'Gx + c'x, the program's *)
(* objective, at the x it writes back, on both strategies, also when the   *)
(* linear cost c is not zero.                                              *)
C1_ReportedCostIsObjective ==
  Done => optimal_cost = ObjectiveAt(x_val)

(* C2: for G positive definite and A of full row rank the range-space      *)
(* strategy runs and x, lambda satisfy A x = b and G x + c - A' lambda = 0;*)
(* for G = 2 I, c = 0, A = [1 1], b = [1] the result is x = [1/2, 1/2]     *)
(* with optimal cost 1/2.                                                  *)
C2_Example ==
  /\ G = IntMat(2, 2, <<<<2, 0>>, <<0, 2>>>>)
  /\ c = IntVec(<<0, 0>>)
  /\ A = IntMat(1, 2, <<<<1, 1>>>>)
  /\ b = IntVec(<<1>>)

C2_RangeSpaceSatisfiesKkt ==
  /\ (Done /\ IsPositiveDefinite(G) /\ Rank(A) = A.rows) =>
        /\ Ran("range_space")
        /\ MatVec(A, x_val) = b
        /\ IsZeroVec(VSub(VAdd(MatVec(G, x_val), c), MatVec(Transpose(A), lambda)))
  /\ (Done /\ C2_Example) =>
        /\ x_val = <<RHalf, RHalf>>
        /\ optimal_cost = RHalf

C2_Witness ==
  Done /\ C2_Example /\ Ran("range_space") /\ lambda = <<R(1)>>

(* C3: after any number of quadratic costs has been processed, G(p,q) is   *)
(* the sum over those costs and over the local pairs (i,j) that map to     *)
(* (p,q) of Q(i,j), and c(p) the sum of the b(i) with i mapping to p.      *)
ExpectedG(p, q) ==
  RSum(Eval([t \in 1..CostsProcessed |->
    LET binding == quadratic_costs[t]
        k == Len(binding.variables)
    IN  RSum(Eval([i \in 1..k |->
          RSum(Eval([j \in 1..k |->
            IF Maps(binding, i, p) /\ Maps(binding, j, q)
            THEN binding.Q.e[i][j] ELSE R0]))]))]))

ExpectedC(p) ==
  RSum(Eval([t \in 1..CostsProcessed |->
    LET binding == quadratic_costs[t]
    IN  RSum(Eval([i \in 1..Len(binding.variables) |->
          IF Maps(binding, i, p) THEN binding.b[i] ELSE R0]))]))

C3_CostAssemblyIsAdditive ==
  CostsAssembling =>
    /\ G.rows = NumVars /\ G.cols = NumVars /\ Len(c) = NumVars
    /\ \A p, q \in 1..NumVars : G.e[p][q] = ExpectedG(p, q)
    /\ \A p \in 1..NumVars : c[p] = ExpectedC(p)

C3_Witness ==
  /\ pc = "constraints"
  /\ Len(quadratic_costs) = 2
  /\ quadratic_costs[1].Q = IntMat(2, 2, <<<<2, 0>>, <<0, 2>>>>)
  /\ quadratic_costs[2].Q = IntMat(1, 1, <<<<3>>>>)
  /\ G.e[2][2] = R(5)
  /\ G.e[1][1] = R(2)
  /\ G.e[1][2] = R0

(* C4: A and b have m = r1 + ... + rk rows; binding t occupies the rows    *)
(* r1 + ... + r(t-1) onward, each local column at its variable's column,   *)
(* zero elsewhere, b holding the binding's right-hand side; the cursor is  *)
(* the number of rows placed so far and ends at m.                         *)
RECURSIVE RowsBefore(_)
RowsBefore(t) ==
  IF t <= 1 THEN 0
  ELSE RowsBefore(t - 1) + linear_equality_constraints[t - 1].A.rows

TotalRows == RowsBefore(Len(linear_equality_constraints) + 1)

C4_ConstraintsAreStacked ==
  ConstraintsAssembling =>
    /\ num_constraints = TotalRows
    /\ A.rows = TotalRows /\ A.cols = NumVars /\ Len(b) = TotalRows
    /\ constraint_index = RowsBefore(ConstraintsProcessed + 1)
    /\ ConstraintsProcessed = Len(linear_equality_constraints) =>
         constraint_index = TotalRows
    /\ \A t \in 1..ConstraintsProcessed :
         LET binding == linear_equality_constraints[t] IN
         \A r \in 1..binding.A.rows :
           /\ b[RowsBefore(t) + r] = binding.lower_bound[r]
           /\ \A col \in 1..NumVars :
                A.e[RowsBefore(t) + r][col] =
                  IF \E i \in 1..Len(binding.variables) : Maps(binding, i, col)
                  THEN binding.A.e[r][CHOOSE i \in 1..Len(binding.variables) :
                                        Maps(binding, i, col)]
                  ELSE R0
    /\ \A r \in (constraint_index + 1)..TotalRows :
         b[r] = R0 /\ \A col \in 1..NumVars : A.e[r][col] = R0

C4_Witness ==
  /\ pc = "factor"
  /\ Len(linear_equality_constraints) = 2
  /\ linear_equality_constraints[1].A.rows = 2
  /\ linear_equality_constraints[2].A.rows = 3
  /\ num_constraints = 5
  /\ constraint_index = 5
  /\ A = IntMat(5, 2, <<<<1, 0>>, <<0, 1>>, <<0, 1>>, <<0, 1>>, <<0, 0>>>>)
  /\ b = IntVec(<<3, 4, 4, 2, 0>>)

(* C5: a call on a program without unsupported kinds is never stopped,    *)
(* each strategy's least-squares solve yields a solution also for          *)
(* rank-deficient constraints and a singular or indefinite Hessian, and    *)
(* the value returned is kSolutionFound; no other value is ever returned.  *)
Running == pc \notin {"idle", "done", "aborted"}

C5_AlwaysSolutionFound ==
  /\ ret \in {"none", "kSolutionFound"}
  /\ Done => ret = "kSolutionFound" /\ solver_result = "kEqualityConstrainedQP"
  /\ ~Done => ret = "none"
  /\ pc = "aborted" => unsupported # {}
  /\ pc = "range_space" =>
       LET AiG_T == LltSolve(llt, Transpose(A))
       IN  QrSolve(MatMul(A, AiG_T), RangeRhs(AiG_T)) # {}
  /\ pc = "full_kkt" =>
       Len(JacobiSvdSolve(AFull, BFull)) = NumVars + num_constraints

C5_Witness ==
  /\ Done /\ ret = "kSolutionFound" /\ Ran("full_kkt")
  /\ Rank(A) < A.rows
  /\ G.e[1][1] = R0 /\ G.e[1][2] = R(1)
  /\ MatVec(A, x_val) # b

(* C6: in a call the Cholesky test is made once; the range-space strategy  *)
(* runs iff it succeeds and the full KKT strategy iff it fails, never      *)
(* both, and the full KKT strategy never after the range-space one; the    *)
(* values are written back once.                                           *)
WriteBackSteps == {"SetDecisionVariableValues", "SetOptimalCost", "SetSolverResult"}

C6_OneStrategyOneWriteBack ==
  /\ Times("llt") <= 1
  /\ Times("range_space") <= 1 /\ Times("full_kkt") <= 1
  /\ ~(Ran("range_space") /\ Ran("full_kkt"))
  /\ Ran("range_space") => Ran("llt") /\ llt.info = "Success"
  /\ Ran("full_kkt") => Ran("llt") /\ llt.info # "Success"
  /\ \A w \in WriteBackSteps :
       /\ Times(w) <= 1
       /\ Ran(w) => Ran("range_space") \/ Ran("full_kkt")
  /\ Done =>
       /\ Times("llt") = 1
       /\ llt.info = LLT(G).info
       /\ Ran("range_space") <=> llt.info = "Success"
       /\ Ran("full_kkt") <=> llt.info # "Success"
       /\ \A w \in WriteBackSteps : Times(w) = 1
       /\ trace[Len(trace)] = "return" /\ Times("return") = 1

C6_Witness ==
  /\ Done /\ calls = 2
  /\ trace = <<"llt", "range_space", "SetDecisionVariableValues",
               "SetOptimalCost", "SetSolverResult", "return">>
  /\ num_constraints > 0

(* C7: when G is symmetric positive definite the range-space strategy and  *)
(* the full KKT system solved for the same (G, c, A, b) give the same x.   *)
C7_StrategiesAgreeOnX ==
  (Done /\ IsPositiveDefinite(G)) =>
     /\ Ran("range_space")
     /\ x_val = Segment(JacobiSvdSolve(AFull, BFull), 1, NumVars)

C7_Witness ==
  /\ Done /\ IsPositiveDefinite(G) /\ Ran("range_space")
  /\ num_constraints > 0
  /\ ~IsZeroVec(c)
  /\ lambda # Segment(JacobiSvdSolve(AFull, BFull), NumVars + 1, num_constraints)

(* C8: when G is not positive definite the full KKT strategy runs: sol is  *)
(* a least-squares solution of [G -A'; A 0] sol = [-c; b] (an exact one    *)
(* when the matrix is nonsingular) and x its first n entries; for no cost, *)
(* A = I, b = [3, 4] this gives x = [3, 4] and cost 0.                     *)
KktMatrix ==
  LET n == NumVars
      m == TotalRows
  IN  Mat(n + m, n + m,
        [i \in 1..(n + m) |-> [j \in 1..(n + m) |->
           IF i <= n /\ j <= n THEN G.e[i][j]
           ELSE IF i <= n THEN RNeg(A.e[j - n][i])
           ELSE IF j <= n THEN A.e[i - n][j]
           ELSE R0]])

KktRhs ==
  Eval([i \in 1..(NumVars + TotalRows) |->
          IF i <= NumVars THEN RNeg(c[i]) ELSE b[i - NumVars]])

C8_Example ==
  /\ quadratic_costs = <<>>
  /\ A = IntMat(2, 2, <<<<1, 0>>, <<0, 1>>>>)
  /\ b = IntVec(<<3, 4>>)

C8_FallbackSolvesKktSystem ==
  /\ (Done /\ ~IsPositiveDefinite(G)) =>
        /\ Ran("full_kkt")
        /\ Len(sol) = NumVars + TotalRows
        /\ IsZeroVec(MatVec(Transpose(KktMatrix),
                            VSub(MatVec(KktMatrix, sol), KktRhs)))
        /\ Rank(KktMatrix) = NumVars + TotalRows => MatVec(KktMatrix, sol) = KktRhs
        /\ x_val = Segment(sol, 1, NumVars)
  /\ (Done /\ C8_Example) =>
        /\ Ran("full_kkt")
        /\ x_val = IntVec(<<3, 4>>)
        /\ optimal_cost = R0

C8_Witness ==
  Done /\ C8_Example /\ Ran("full_kkt") /\ x_val = IntVec(<<3, 4>>)

(* C9: with an unsupported kind present the call stops at the assertions:  *)
(* nothing is assembled, nothing is written back (values, optimal cost and *)
(* solver result stay what they were before the call) and nothing is       *)
(* returned.                                                               *)
C9_UnsupportedKindStopsSolve ==
  /\ unsupported # {} => ~Running
  /\ pc = "aborted" =>
       /\ unsupported # {}
       /\ x_val = prev.x_val
       /\ optimal_cost = prev.optimal_cost
       /\ solver_result = prev.solver_result
       /\ ret = "none"
       /\ trace = <<>>
       /\ FreshFrame

C9_Witness ==
  /\ pc = "aborted"
  /\ "bounding_box_constraints" \in unsupported
  /\ calls = 1
  /\ solver_result = "none"
  /\ x_val = Eval([i \in 1..NumVars |-> NaN])
  /\ NumTerms = MaxTerms

(* C10: a second call on the same ordered costs and constraints takes the  *)
(* same strategy and writes back the same x, the same optimal cost and the *)
(* same outcome as the first.                                              *)
C10_RepeatedSolveIsIdentical ==
  (Done /\ calls >= 2) =>
     /\ x_val = prev.x_val
     /\ optimal_cost = prev.optimal_cost
     /\ solver_result = prev.solver_result
     /\ ret = prev.ret
     /\ trace = prev.trace

C10_Witness ==
  /\ Done /\ calls = 2
  /\ prev.ret = "kSolutionFound"
  /\ Ran("range_space")
  /\ Rank(A) < A.rows
  /\ x_val = prev.x_val

====
